---- MODULE Spec2Model ----
(***************************************************************************)
(* Training / tuning scripts of LatentTrees: the epoch loop of dntn.py     *)
(* (seed loop, best-checkpoint policy, early stop) and the objective of    *)
(* tune_clustering.py (trial, best-checkpoint policy, NaN abort, monitor). *)
(* A process runs one of the two scripts.  The validation metric returned  *)
(* by evaluate() is an input: any number of 1..MaxVal, or NaN.             *)
(***************************************************************************)
EXTENDS Integers, Sequences, FiniteSets, TLC

\* ---------------------------------------------------------------- bounds
MaxEpochsDntn == 10     \* EPOCHS of dntn.py ranges over 1..MaxEpochsDntn (one seed)
MaxEpochsMulti == 5     \* ... and over 1..MaxEpochsMulti when several seeds run
MaxEpochsTune == 3      \* EPOCHS of tune_clustering.py ranges over 1..MaxEpochsTune
MaxVal == 2             \* finite validation metrics are 1..MaxVal
NumRuns == 2            \* at most NumRuns seeds (dntn.py) / trials (study)

\* ------------------------------------------------------- floating point
\* float('nan'): unordered with every value; float('inf'): above every metric
NaN == -1
Inf == MaxVal + 1
Metrics == (1..MaxVal) \cup {NaN}

\* the comparison written as "not (a > b)", which is True for NaN
LeqNotGreater(a, b) == ~(a # NaN /\ b # NaN /\ a > b)
\* the comparison written as a < b, which drops the tie
LeqStrict(a, b) == a # NaN /\ b # NaN /\ a < b
\* a <= b on floats: False as soon as one side is NaN
Leq(a, b) == a # NaN /\ b # NaN /\ a <= b

\* np.isinf in place of np.isnan
isinf(a) == a = Inf
\* np.isnan
isnan(a) == a = NaN

\* the threshold rounded up instead of down
StopAtCeil(E) == (E + 4) \div 5
\* the threshold as a tenth of the planned epochs
StopAtTenth(E) == E \div 10
\* EPOCHS // 5
StopAt(E) == E \div 5

\* ------------------------------------------------------------- records
NewModel(r) == [born |-> r, trained |-> 0]
NewOptimizer(r) == [born |-> r, steps |-> 0]
NewScheduler(r) == [born |-> r, calls |-> 0, last |-> Inf]
NewMonitor(r) == [born |-> r, open |-> TRUE, writes |-> 0, exported |-> 0, closes |-> 0]
NoMonitor == [born |-> 0, open |-> FALSE, writes |-> 0, exported |-> 0, closes |-> 0]

\* the checkpoint file of a directory: what save_model wrote there
Checkpoint(m, o, ep, v) == [model |-> m, optimizer |-> o, epoch |-> ep, val |-> v]
\* no checkpoint file in the directory
NoCkpt == Checkpoint([born |-> -1, trained |-> 0], [born |-> -1, steps |-> 0], -1, NaN)
\* a checkpoint left in the directory by an earlier process (run 0)
StaleCkpt == Checkpoint([born |-> 0, trained |-> 1], [born |-> 0, steps |-> 1], 0, 1)

Dirs == 1..NumRuns

VARIABLES
    script,         \* "dntn" or "tune": the script this process runs
    EPOCHS,         \* planned epochs
    n_trials,       \* number of seeds (dntn.py) / of trials (study.optimize)
    data,           \* dataset and data loaders, created at module level
    pc,             \* position in the script
    run,            \* index of the current seed / trial (0 before the first)
    save_dir,       \* checkpoint directory of the current seed / trial
    e,              \* epoch loop variable
    model, optimizer, lr_scheduler, monitor,
    val_loss,       \* validation metric of the current epoch
    best_val_loss, best_e, no_improv,
    disk,           \* directory -> checkpoint file
    score,          \* the model given to the final evaluation (test error / purity)
    results,        \* test_losses (dntn) / trial outcomes (study)
    vals,           \* history: validation metrics of the current seed / trial
    trace           \* history: steps of the current seed / trial

vars == <<script, EPOCHS, n_trials, data, pc, run, save_dir, e, model, optimizer,
          lr_scheduler, monitor, val_loss, best_val_loss, best_e, no_improv,
          disk, score, results, vals, trace>>

loopvars == <<val_loss, best_val_loss, best_e, no_improv>>
objs == <<model, optimizer, lr_scheduler, monitor>>
conf == <<script, EPOCHS, n_trials, data>>

Init ==
    /\ script \in {"dntn", "tune"}
    /\ n_trials \in 1..NumRuns
    /\ EPOCHS \in 1..(IF script = "tune" THEN MaxEpochsTune
                      ELSE IF n_trials = 1 THEN MaxEpochsDntn ELSE MaxEpochsMulti)
    /\ data = [loaded |-> 1, loaders |-> 1]
    /\ pc = "start"
    /\ run = 0
    /\ save_dir = 0
    /\ e = -1
    /\ model = NewModel(0)
    /\ optimizer = NewOptimizer(0)
    /\ lr_scheduler = NewScheduler(0)
    /\ monitor = NoMonitor
    /\ val_loss = NaN
    /\ best_val_loss = Inf
    /\ best_e = -1
    /\ no_improv = 0
    /\ disk \in [Dirs -> {NoCkpt, StaleCkpt}]
    /\ \A d \in Dirs : d > n_trials => disk[d] = NoCkpt
    /\ score = NewModel(0)
    /\ results = <<>>
    /\ vals = <<>>
    /\ trace = <<>>

\* ------------------------------------------------------------ helpers
\* train_stochastic: one pass over trainloader updates the parameters
Trained(m) == [m EXCEPT !.trained = @ + 1]
Stepped(o) == [o EXCEPT !.steps = @ + 1]
\* lr_scheduler.step(best_val_loss) in place of the epoch's metric
SchedulerStepBest(s, v) ==
    [s EXCEPT !.calls = @ + 1, !.last = IF v # NaN /\ v <= @ THEN v ELSE @]
\* lr_scheduler.step(metric)
SchedulerStep(s, v) == [s EXCEPT !.calls = @ + 1, !.last = v]
\* MonitorTree.write: add_scalars on the writer
MonitorWrite(m) == [m EXCEPT !.writes = @ + 1]
\* MonitorTree.close: export the scalars to JSON, then close the writer
MonitorClose(m) == [m EXCEPT !.exported = @ + 1, !.open = FALSE, !.closes = @ + 1]

\* save_model into a directory: the file is overwritten
SaveModel(d, dir, m, o, ep, v) == [d EXCEPT ![dir] = Checkpoint(m, o, ep, v)]

\* end of a for-body: next value of range(EPOCHS), or leave the loop
NextEpochPc == IF e + 1 < EPOCHS THEN "train" ELSE "load"
NextEpochE == IF e + 1 < EPOCHS THEN e + 1 ELSE e
\* after a seed / trial ended: the next one, or the code after the loop
NextRunPc == IF run < n_trials THEN "start" ELSE "report"

\* ------------------------------------------------------------- dntn.py
\* a seed loop whose best_val_loss / best_e / no_improv are set once, before
\* the loop over the seeds
D_StartSeedKeepBest ==
    /\ script = "dntn" /\ pc = "start" /\ run < n_trials
    /\ run' = run + 1
    /\ save_dir' = run + 1
    /\ model' = NewModel(run + 1)
    /\ optimizer' = NewOptimizer(run + 1)
    /\ lr_scheduler' = NewScheduler(run + 1)
    /\ e' = 0
    /\ pc' = "train"
    /\ vals' = <<>>
    /\ trace' = <<>>
    /\ UNCHANGED <<conf, monitor, loopvars, disk, score, results>>

\* lines 36-68: a seed begins
D_StartSeed ==
    /\ script = "dntn" /\ pc = "start" /\ run < n_trials
    /\ run' = run + 1
    /\ save_dir' = run + 1
    /\ model' = NewModel(run + 1)
    /\ optimizer' = NewOptimizer(run + 1)
    /\ lr_scheduler' = NewScheduler(run + 1)
    /\ best_val_loss' = Inf
    /\ best_e' = -1
    /\ no_improv' = 0
    /\ e' = 0
    /\ pc' = "train"
    /\ vals' = <<>>
    /\ trace' = <<>>
    /\ UNCHANGED <<conf, monitor, val_loss, disk, score, results>>

\* line 70
D_Train ==
    /\ script = "dntn" /\ pc = "train"
    /\ model' = Trained(model)
    /\ optimizer' = Stepped(optimizer)
    /\ trace' = Append(trace, "train")
    /\ pc' = "validate"
    /\ UNCHANGED <<conf, run, save_dir, e, lr_scheduler, monitor, loopvars,
                   disk, score, results, vals>>

\* lines 72-73
D_Validate ==
    /\ script = "dntn" /\ pc = "validate"
    /\ \E v \in Metrics :
          /\ val_loss' = v
          /\ vals' = Append(vals, v)
    /\ trace' = Append(trace, "validate")
    /\ pc' = "checkpoint"
    /\ UNCHANGED <<conf, run, save_dir, e, objs, best_val_loss, best_e,
                   no_improv, disk, score, results>>

\* lines 75-80
D_Checkpoint ==
    /\ script = "dntn" /\ pc = "checkpoint"
    /\ IF Leq(val_loss, best_val_loss)
         THEN /\ best_val_loss' = val_loss
              /\ best_e' = e
              /\ disk' = SaveModel(disk, save_dir, model, optimizer, e, val_loss)
              /\ no_improv' = 0
              /\ trace' = Append(trace, "save")
         ELSE /\ no_improv' = no_improv + 1
              /\ UNCHANGED <<best_val_loss, best_e, disk, trace>>
    /\ pc' = "sched"
    /\ UNCHANGED <<conf, run, save_dir, e, objs, val_loss, score, results, vals>>

\* line 83
D_SchedStep ==
    /\ script = "dntn" /\ pc = "sched"
    /\ lr_scheduler' = SchedulerStep(lr_scheduler, val_loss)
    /\ trace' = Append(trace, "sched")
    /\ pc' = "check"
    /\ UNCHANGED <<conf, run, save_dir, e, model, optimizer, monitor, loopvars,
                   disk, score, results, vals>>

\* lines 85-86 and the loop header
D_EarlyStop ==
    /\ script = "dntn" /\ pc = "check"
    /\ trace' = Append(trace, "check")
    /\ IF no_improv = StopAt(EPOCHS)
         THEN pc' = "load" /\ e' = e
         ELSE pc' = NextEpochPc /\ e' = NextEpochE
    /\ UNCHANGED <<conf, run, save_dir, objs, loopvars, disk, score, results, vals>>

\* lines 88-91: the model is read back from save_dir
D_LoadBest ==
    /\ script = "dntn" /\ pc = "load"
    /\ IF disk[save_dir] = NoCkpt
         THEN pc' = "crashed" /\ UNCHANGED <<model, trace>>
         ELSE /\ model' = disk[save_dir].model
              /\ trace' = Append(trace, "load")
              /\ pc' = "eval"
    /\ UNCHANGED <<conf, run, save_dir, e, optimizer, lr_scheduler, monitor,
                   loopvars, disk, score, results, vals>>

\* lines 93-100
D_Test ==
    /\ script = "dntn" /\ pc = "eval"
    /\ score' = model
    /\ results' = Append(results, [outcome |-> "test", of |-> model])
    /\ trace' = trace \o <<"eval", "report">>
    /\ pc' = NextRunPc
    /\ UNCHANGED <<conf, run, save_dir, e, objs, loopvars, disk, vals>>

\* lines 102-105
D_Report ==
    /\ script = "dntn" /\ pc = "report"
    /\ pc' = "done"
    /\ UNCHANGED <<conf, run, save_dir, e, objs, loopvars, disk, score, results,
                   vals, trace>>

\* --------------------------------------------- tune_clustering.py
\* study.optimize calls objective(trial); lines 66-105: a trial begins, the
\* suggested hyperparameters select save_dir
T_StartTrial ==
    /\ script = "tune" /\ pc = "start" /\ run < n_trials
    /\ run' = run + 1
    /\ \E d \in 1..n_trials : save_dir' = d
    /\ model' = NewModel(run + 1)
    /\ optimizer' = NewOptimizer(run + 1)
    /\ lr_scheduler' = NewScheduler(run + 1)
    /\ monitor' = NewMonitor(run + 1)
    /\ best_val_loss' = Inf
    /\ best_e' = -1
    /\ e' = 0
    /\ pc' = "train"
    /\ vals' = <<>>
    /\ trace' = <<>>
    /\ UNCHANGED <<conf, val_loss, no_improv, disk, score, results>>

\* line 107
T_Train ==
    /\ script = "tune" /\ pc = "train"
    /\ model' = Trained(model)
    /\ optimizer' = Stepped(optimizer)
    /\ trace' = Append(trace, "train")
    /\ pc' = "validate"
    /\ UNCHANGED <<conf, run, save_dir, e, lr_scheduler, monitor, loopvars,
                   disk, score, results, vals>>

\* line 109
T_Validate ==
    /\ script = "tune" /\ pc = "validate"
    /\ \E v \in Metrics :
          /\ val_loss' = v
          /\ vals' = Append(vals, v)
    /\ trace' = Append(trace, "validate")
    /\ pc' = "checkpoint"
    /\ UNCHANGED <<conf, run, save_dir, e, objs, best_val_loss, best_e,
                   no_improv, disk, score, results>>

\* lines 111-114
T_Checkpoint ==
    /\ script = "tune" /\ pc = "checkpoint"
    /\ IF Leq(val_loss, best_val_loss)
         THEN /\ best_val_loss' = val_loss
              /\ best_e' = e
              /\ disk' = SaveModel(disk, save_dir, model, optimizer, e, val_loss)
              /\ trace' = Append(trace, "save")
         ELSE UNCHANGED <<best_val_loss, best_e, disk, trace>>
    /\ pc' = "sched"
    /\ UNCHANGED <<conf, run, save_dir, e, objs, val_loss, no_improv, score,
                   results, vals>>

\* lines 117-118
T_SchedStep ==
    /\ script = "tune" /\ pc = "sched"
    /\ lr_scheduler' = SchedulerStep(lr_scheduler, val_loss)
    /\ monitor' = MonitorWrite(monitor)
    /\ trace' = trace \o <<"sched", "write_lr">>
    /\ pc' = "check"
    /\ UNCHANGED <<conf, run, save_dir, e, model, optimizer, loopvars,
                   disk, score, results, vals>>

\* the NaN check raising TrialPruned without monitor.close()
T_NaNCheckNoClose ==
    /\ script = "tune" /\ pc = "check"
    /\ IF isnan(val_loss)
         THEN /\ trace' = trace \o <<"check", "pruned">>
              /\ results' = Append(results, [outcome |-> "pruned", of |-> score])
              /\ pc' = NextRunPc
              /\ e' = e
              /\ UNCHANGED monitor
         ELSE /\ trace' = Append(trace, "check")
              /\ pc' = NextEpochPc
              /\ e' = NextEpochE
              /\ UNCHANGED <<monitor, results>>
    /\ UNCHANGED <<conf, run, save_dir, model, optimizer, lr_scheduler,
                   loopvars, disk, score, vals>>

\* lines 120-122 and the loop header; TrialPruned ends the trial, the study
\* records it as pruned and goes on with the next trial
T_NaNCheck ==
    /\ script = "tune" /\ pc = "check"
    /\ IF isnan(val_loss)
         THEN /\ monitor' = MonitorClose(monitor)
              /\ trace' = trace \o <<"check", "export", "wclose", "pruned">>
              /\ results' = Append(results, [outcome |-> "pruned", of |-> score])
              /\ pc' = NextRunPc
              /\ e' = e
         ELSE /\ trace' = Append(trace, "check")
              /\ pc' = NextEpochPc
              /\ e' = NextEpochE
              /\ UNCHANGED <<monitor, results>>
    /\ UNCHANGED <<conf, run, save_dir, model, optimizer, lr_scheduler,
                   loopvars, disk, score, vals>>

\* line 124
T_LoadBest ==
    /\ script = "tune" /\ pc = "load"
    /\ IF disk[save_dir] = NoCkpt
         THEN pc' = "crashed" /\ UNCHANGED <<model, trace>>
         ELSE /\ model' = disk[save_dir].model
              /\ trace' = Append(trace, "load")
              /\ pc' = "eval"
    /\ UNCHANGED <<conf, run, save_dir, e, optimizer, lr_scheduler, monitor,
                   loopvars, disk, score, results, vals>>

\* lines 125-127
T_Purity ==
    /\ script = "tune" /\ pc = "eval"
    /\ score' = model
    /\ trace' = trace \o <<"eval", "report">>
    /\ pc' = "write"
    /\ UNCHANGED <<conf, run, save_dir, e, objs, loopvars, disk, results, vals>>

\* line 129
T_WritePurity ==
    /\ script = "tune" /\ pc = "write"
    /\ monitor' = MonitorWrite(monitor)
    /\ trace' = Append(trace, "write_purity")
    /\ pc' = "close"
    /\ UNCHANGED <<conf, run, save_dir, e, model, optimizer, lr_scheduler,
                   loopvars, disk, score, results, vals>>

\* line 131
T_Close ==
    /\ script = "tune" /\ pc = "close"
    /\ monitor' = MonitorClose(monitor)
    /\ trace' = trace \o <<"export", "wclose">>
    /\ pc' = "return"
    /\ UNCHANGED <<conf, run, save_dir, e, model, optimizer, lr_scheduler,
                   loopvars, disk, score, results, vals>>

\* line 133
T_Return ==
    /\ script = "tune" /\ pc = "return"
    /\ results' = Append(results, [outcome |-> "score", of |-> score])
    /\ trace' = Append(trace, "return")
    /\ pc' = NextRunPc
    /\ UNCHANGED <<conf, run, save_dir, e, objs, loopvars, disk, score, vals>>

\* lines 140-144
T_Report ==
    /\ script = "tune" /\ pc = "report"
    /\ pc' = "done"
    /\ UNCHANGED <<conf, run, save_dir, e, objs, loopvars, disk, score, results,
                   vals, trace>>

Next ==
    \/ D_StartSeed
    \/ D_Train
    \/ D_Validate
    \/ D_Checkpoint
    \/ D_SchedStep
    \/ D_EarlyStop
    \/ D_LoadBest
    \/ D_Test
    \/ D_Report
    \/ T_StartTrial
    \/ T_Train
    \/ T_Validate
    \/ T_Checkpoint
    \/ T_SchedStep
    \/ T_NaNCheck
    \/ T_LoadBest
    \/ T_Purity
    \/ T_WritePurity
    \/ T_Close
    \/ T_Return
    \/ T_Report

Spec == Init /\ [][Next]_vars

\* =====================================================================
\* Properties.  The operators below are computed from the history of
\* validation metrics alone, independently of the loop's bookkeeping.
\* =====================================================================
Numbers(s) == {s[i] : i \in DOMAIN s} \ {NaN}
HasNaN(s) == \E i \in DOMAIN s : s[i] = NaN
\* smallest number of s (NaN left out), +infinity when there is none
MinOf(s) == IF Numbers(s) = {} THEN Inf
            ELSE CHOOSE m \in Numbers(s) : \A x \in Numbers(s) : m <= x
Prefix(s, k) == SubSeq(s, 1, k)
\* the metric of the i-th epoch (1-based) is tie-or-better than all before
ImprovesAt(s, i) == s[i] # NaN /\ s[i] <= MinOf(Prefix(s, i - 1))
ImprovingEpochs(s) == {i \in DOMAIN s : ImprovesAt(s, i)}
Max(S) == CHOOSE m \in S : \A x \in S : x <= m
\* 0-based index of the latest epoch whose metric is the minimum, -1 if none
LastMinEpoch(s) ==
    IF Numbers(s) = {} THEN -1
    ELSE Max({i \in DOMAIN s : s[i] = MinOf(s)}) - 1
\* number of consecutive most recent epochs without improvement
Streak(s) == IF ImprovingEpochs(s) = {} THEN Len(s)
             ELSE Len(s) - Max(ImprovingEpochs(s))
Happened(ev) == \E i \in DOMAIN trace : trace[i] = ev
Count(ev) == Cardinality({i \in DOMAIN trace : trace[i] = ev})
\* the checkpoint file of save_dir was written in the current epoch
SavedThisEpoch ==
    /\ disk[save_dir].model = [born |-> run, trained |-> e + 1]
    /\ disk[save_dir].epoch = e
    /\ disk[save_dir].val = val_loss
\* the checkpoint step of the current epoch is done, the next not begun
EpochEnd == pc \in {"sched", "check"}

\* C1 (as amended): a checkpoint is persisted in epoch e exactly when the
\* epoch's metric is tie-or-better than the best seen before it, and after
\* every epoch best_val_loss is the minimum of the non-NaN metrics of the
\* epochs run so far (+infinity when every metric so far is NaN).
C1_RunningMinimum ==
    /\ EpochEnd => (SavedThisEpoch <=> ImprovesAt(vals, e + 1))
    /\ pc # "checkpoint" => best_val_loss = MinOf(vals)

\* C1 as stated: after every epoch best_val_loss is the minimum of the
\* metrics of all epochs run so far, i.e. one of them and <= each of them.
C1_AsStated ==
    /\ EpochEnd => (SavedThisEpoch <=> ImprovesAt(vals, e + 1))
    /\ EpochEnd =>
          /\ \E i \in DOMAIN vals : vals[i] = best_val_loss
          /\ \A i \in DOMAIN vals :
                vals[i] # NaN /\ best_val_loss # NaN /\ best_val_loss <= vals[i]

C1_Witness ==
    /\ pc = "check" /\ vals = <<2, 1, 2>>
    /\ best_val_loss = 1 /\ disk[save_dir].epoch = 1 /\ ~SavedThisEpoch

\* the final evaluation of the current seed / trial has been made
Evaluated == Happened("eval")

\* C2: the final evaluation is made on the model reloaded from the
\* checkpoint written at epoch best_e of this seed / trial: the model of the
\* latest epoch whose metric is the minimum, whose metric is best_val_loss.
C2_EvaluatesBestCheckpoint ==
    Evaluated =>
        /\ best_e = LastMinEpoch(vals)
        /\ best_e >= 0
        /\ score = [born |-> run, trained |-> best_e + 1]
        /\ vals[best_e + 1] = best_val_loss

\* C8: when the reload is reached a checkpoint has been persisted earlier
\* in the same seed / trial, so the file read is neither missing nor stale.
C8_ReloadFindsOwnCheckpoint ==
    pc = "load" =>
        /\ best_e >= 0
        /\ \E i \in DOMAIN vals : vals[i] = best_val_loss
        /\ disk[save_dir] # NoCkpt
        /\ disk[save_dir].model.born = run

\* C3 (as amended): after each epoch of dntn.py the counter is the number of
\* consecutive most recent epochs without improvement; no epoch is run after
\* one that ends with the counter at EPOCHS // 5, and the loop is left only
\* then or after EPOCHS epochs; the counter never exceeds EPOCHS // 5 when
\* EPOCHS >= 5, and when EPOCHS < 5 it is above 0 only while every metric so
\* far is NaN.
C3_Counter ==
    script = "dntn" =>
        /\ pc # "checkpoint" => no_improv = Streak(vals)
        /\ (pc = "train" /\ e > 0) => no_improv # EPOCHS \div 5
        /\ pc = "load" => (no_improv = EPOCHS \div 5 \/ Len(vals) = EPOCHS)
        /\ EPOCHS >= 5 => no_improv <= EPOCHS \div 5
        /\ (EPOCHS < 5 /\ pc # "checkpoint" /\ no_improv > 0) => Numbers(vals) = {}

\* C3 as stated: ... and the counter never exceeds EPOCHS // 5.
C3_AsStated ==
    (script = "dntn" /\ pc # "checkpoint") =>
        /\ no_improv = Streak(vals)
        /\ (pc = "train" /\ e > 0) => no_improv # EPOCHS \div 5
        /\ no_improv <= EPOCHS \div 5

C3_Witness ==
    /\ script = "dntn" /\ EPOCHS = 10 /\ pc = "load"
    /\ vals = <<2, NaN, 1, 2, 2>> /\ no_improv = 2

\* C4 (as amended): in dntn.py with EPOCHS < 5 the loop stops after the
\* first epoch whose metric is not NaN (after the very first epoch unless
\* its metric is NaN); with EPOCHS in 5..9 it stops after the first epoch
\* that does not improve, so a second epoch is run whenever the first
\* metric is not NaN.
C4_Degenerate ==
    script = "dntn" =>
        /\ EPOCHS < 5 =>
              /\ \A i \in 1..(Len(vals) - 1) : vals[i] = NaN
              /\ (pc \in {"train", "validate"} /\ e > 0) => Numbers(vals) = {}
              /\ (pc = "load" /\ Len(vals) < EPOCHS) => vals[Len(vals)] # NaN
        /\ EPOCHS \in 5..9 =>
              /\ \A i \in 1..(Len(vals) - 1) : ImprovesAt(vals, i)
              /\ (pc = "load" /\ Len(vals) < EPOCHS) => ~ImprovesAt(vals, Len(vals))
              /\ (pc = "load" /\ Len(vals) = 1 /\ EPOCHS > 1) => vals[1] = NaN

\* C4 as stated: with EPOCHS in 1..9 the loop stops after the first epoch.
C4_AsStated ==
    (script = "dntn" /\ EPOCHS < 10) => Len(vals) <= 1

C4_Witness ==
    /\ script = "dntn" /\ EPOCHS = 3 /\ pc = "load" /\ vals = <<2>>

\* the current trial of the study has ended (returned or raised)
TrialEnded == script = "tune" /\ run >= 1 /\ Len(results) = run
IndexOf(ev) == CHOOSE i \in DOMAIN trace : trace[i] = ev

\* C5: in objective, a NaN metric closes the monitor and raises TrialPruned
\* in that same epoch: no further epoch, no reload, no purity, no score; and
\* a score is returned only if no metric of the trial was NaN.
C5_NaNPrunes ==
    script = "tune" =>
        /\ HasNaN(vals) =>
              /\ vals[Len(vals)] = NaN
              /\ \A i \in 1..(Len(vals) - 1) : vals[i] # NaN
              /\ pc \in {"checkpoint", "sched", "check", "start", "report", "done"}
              /\ Count("train") = Len(vals)
              /\ ~Happened("load") /\ ~Happened("eval") /\ ~Happened("return")
              /\ pc \notin {"checkpoint", "sched", "check"} =>
                    /\ TrialEnded
                    /\ results[run].outcome = "pruned"
                    /\ monitor.closes = 1 /\ ~monitor.open
                    /\ Count("check") = Len(vals)
        /\ (TrialEnded /\ results[run].outcome = "score") => ~HasNaN(vals)
        /\ Happened("return") => ~HasNaN(vals)

C5_Witness ==
    /\ script = "tune" /\ EPOCHS = 3 /\ vals = <<2, NaN>> /\ TrialEnded
    /\ results[run].outcome = "pruned" /\ monitor.closes = 1

\* C6: inside an epoch the steps are train, validate, checkpoint-if-improved,
\* scheduler step (once per epoch, with that epoch's metric), then the stop
\* check; after the loop: reload, final evaluation, reporting.
StepAfter(prev, ev) ==
    CASE ev = "train" -> prev \in {"", "check"}
      [] ev = "validate" -> prev = "train"
      [] ev = "save" -> prev = "validate"
      [] ev = "sched" -> prev \in {"validate", "save"}
      [] ev = "write_lr" -> prev = "sched"
      [] ev = "check" -> prev = (IF script = "dntn" THEN "sched" ELSE "write_lr")
      [] ev = "load" -> prev = "check"
      [] ev = "eval" -> prev = "load"
      [] ev = "report" -> prev = "eval"
      [] OTHER -> TRUE
C6_StepOrder ==
    /\ \A i \in DOMAIN trace :
          StepAfter(IF i = 1 THEN "" ELSE trace[i - 1], trace[i])
    /\ Count("sched") = lr_scheduler.calls
    /\ pc \in {"checkpoint", "sched"} => lr_scheduler.calls = Len(vals) - 1
    /\ pc \notin {"checkpoint", "sched"} =>
          /\ lr_scheduler.calls = Len(vals)
          /\ Len(vals) > 0 => lr_scheduler.last = vals[Len(vals)]
    /\ Happened("load") => Count("check") = Len(vals)

C6_Witness ==
    /\ script = "dntn" /\ pc = "report"
    /\ trace = <<"train", "validate", "save", "sched", "check",
                 "train", "validate", "sched", "check", "load", "eval", "report">>

\* C7: every seed / trial starts from a fresh model, optimizer and scheduler
\* with best_val_loss = +infinity, best_e = -1 (no_improv = 0 in dntn.py),
\* whatever earlier seeds / trials did; the dataset and loaders stay as
\* created.
C7_FreshRun ==
    /\ data = [loaded |-> 1, loaders |-> 1]
    /\ (pc = "train" /\ e = 0) =>
          /\ model = [born |-> run, trained |-> 0]
          /\ optimizer = [born |-> run, steps |-> 0]
          /\ lr_scheduler = [born |-> run, calls |-> 0, last |-> Inf]
          /\ best_val_loss = Inf
          /\ best_e = -1
          /\ script = "dntn" => no_improv = 0
          /\ script = "tune" => monitor = [born |-> run, open |-> TRUE,
                                           writes |-> 0, exported |-> 0, closes |-> 0]

C7_Witness ==
    /\ run = 2 /\ pc = "train" /\ e = 0 /\ Len(results) = 1
    /\ val_loss = 1 /\ score.born = 1

\* C9: an epoch whose metric is NaN persists no checkpoint and leaves
\* best_val_loss and best_e as they were; no checkpoint file records a NaN
\* metric; in dntn.py the epoch adds one to the no-improvement counter.
C9_NaNNeverImproves ==
    /\ [][(pc = "checkpoint" /\ val_loss = NaN) =>
             /\ best_val_loss' = best_val_loss
             /\ best_e' = best_e
             /\ disk' = disk
             /\ script = "dntn" => no_improv' = no_improv + 1]_vars
    /\ [](\A d \in Dirs : disk[d] # NoCkpt => disk[d].val # NaN)

C9_Witness ==
    /\ script = "dntn" /\ pc = "sched" /\ val_loss = NaN
    /\ best_e = 0 /\ no_improv = 1 /\ disk[save_dir].model.born = run

\* C10: when objective ends by returning or by raising TrialPruned the
\* monitor has been closed exactly once (export, then writer close) and
\* nothing is written after it: the purity write precedes the close on the
\* normal path, the epoch's learning-rate write on the NaN path.
C10_MonitorClosedOnce ==
    script = "tune" =>
        /\ monitor.closes = Count("wclose") /\ monitor.exported = Count("export")
        /\ monitor.writes = Count("write_lr") + Count("write_purity")
        /\ monitor.closes <= 1
        /\ monitor.open <=> (run >= 1 /\ monitor.closes = 0)
        /\ TrialEnded =>
              /\ monitor.closes = 1 /\ monitor.exported = 1
              /\ trace[IndexOf("export") + 1] = "wclose"
              /\ \A i \in DOMAIN trace :
                    i > IndexOf("export") => trace[i] \notin {"write_lr", "write_purity"}
              /\ results[run].outcome = "score" =>
                    trace[IndexOf("export") - 1] = "write_purity"
              /\ results[run].outcome = "pruned" =>
                    /\ trace[IndexOf("export") - 1] = "check"
                    /\ trace[IndexOf("export") - 2] = "write_lr"

C10_Witness ==
    /\ TrialEnded /\ run = 2 /\ results[1].outcome = "pruned"
    /\ results[2].outcome = "score" /\ monitor.writes = EPOCHS + 1

====
